---- MODULE Spec2Model ----
(***************************************************************************)
(* Model of Based-Numbers: the TinyMap sorted-vector map (src/src/lib.rs)  *)
(* and the incremental factorization sieve of main (src/src/main.rs).      *)
(*                                                                         *)
(* A TinyMap is modelled by the contents of its backing TinyVec: a         *)
(* sequence of <<key, value>> pairs.  Rust indices are 0-based; the        *)
(* operators below keep 0-based indices and add 1 when they index a TLA+   *)
(* sequence.                                                               *)
(***************************************************************************)
EXTENDS Integers, Sequences, FiniteSets

VARIABLES
    inner,                        \* TinyMap.inner of the map under test (lib.rs:7)
    last,                         \* the last map operation called and its arguments
    max_num,                      \* args.max_num (main.rs:15)
    pc,                           \* position of main: "loop", "finalize", "done", "panic"
    i,                            \* loop variable of `for i in 2..n` (main.rs:68)
    num_properties,               \* Vec<Option<NumProperties>> (main.rs:49)
    prime_factors,                \* Vec<FactorMultiset> (main.rs:50)
    primes,                       \* Vec of primes found so far (main.rs:51)
    based,                        \* Vec of (number, basedness) records (main.rs:52)
    num_prime_factors_histogram,  \* [0; 10] (main.rs:54)
    histogram_out                 \* the finalized histogram vector (main.rs:121)

sieveVars == <<max_num, pc, i, num_properties, prime_factors, primes, based,
               num_prime_factors_histogram, histogram_out>>
vars == <<inner, last, max_num, pc, i, num_properties, prime_factors, primes,
          based, num_prime_factors_histogram, histogram_out>>

----------------------------------------------------------------------------
(* Bounds of the model *)

MaxKey == 3
MaxVal == 1
MaxLen == 3
MaxNum == 30

Keys == 1..MaxKey
Vals == 0..MaxVal
Pairs == Keys \X Vals
Closures == {"incr", "zero"}
ExtendInputs == {<<a>> : a \in Pairs} \cup {<<a, b>> : a \in Pairs, b \in Pairs}

----------------------------------------------------------------------------
(* TinyMap (src/src/lib.rs) *)

\* TinyMap::new
new == <<>>

\* the loop of core::slice::binary_search_by, as called with the key projection
RECURSIVE binary_search_loop(_, _, _, _)
binary_search_loop(s, key, base, size) ==
    IF size <= 1 THEN base
    ELSE LET half == size \div 2
             mid == base + half
         IN binary_search_loop(s, key,
                               IF s[mid + 1][1] > key THEN base ELSE mid,
                               size - half)

\* self.inner.binary_search_by_key(&&key, |(key, _)| key): Ok(idx) or Err(idx)
binary_search_by_key(s, key) ==
    IF Len(s) = 0 THEN [ok |-> FALSE, idx |-> 0]
    ELSE LET base == binary_search_loop(s, key, 0, Len(s))
             k == s[base + 1][1]
         IN IF k = key THEN [ok |-> TRUE, idx |-> base]
            ELSE [ok |-> FALSE, idx |-> IF k < key THEN base + 1 ELSE base]

\* TinyVec::insert(idx, item): shifts the items at idx.. one place right
vec_insert(s, idx, item) ==
    [j \in 1..(Len(s) + 1) |->
        IF j <= idx THEN s[j] ELSE IF j = idx + 1 THEN item ELSE s[j - 1]]

\* TinyMap::entry: the handle, Occupied(&mut inner[idx]) or Vacant{key, idx}
entry(m, key) ==
    LET r == binary_search_by_key(m, key)
    IN IF r.ok THEN [tag |-> "Occupied", key |-> key, idx |-> r.idx]
       ELSE [tag |-> "Vacant", key |-> key, idx |-> r.idx]

\* the closures passed to and_modify: |k| *k += 1 (main.rs:88) and |k| *k = 0
apply_f(f, v) == IF f = "incr" THEN v + 1 ELSE 0

\* TinyMapEntry::and_modify: the map after the call (the handle is unchanged)
and_modify(m, e, f) ==
    IF e.tag = "Occupied"
    THEN [m EXCEPT ![e.idx + 1] = <<@[1], apply_f(f, @[2])>>]
    ELSE m

\* or_insert that pushes the new pair at the end instead of at idx
or_insert_push(m, e, default) ==
    IF e.tag = "Occupied" THEN m
    ELSE Append(m, <<e.key, default>>)

\* TinyMapEntry::or_insert: the map after the call
or_insert(m, e, default) ==
    IF e.tag = "Occupied" THEN m
    ELSE vec_insert(m, e.idx, <<e.key, default>>)

\* the chain without its and_modify call
entry_or_insert_without_modify(m, key, f, default) ==
    LET e == entry(m, key)
    IN or_insert(m, e, default)

\* m.entry(key).and_modify(f).or_insert(default), the chain of main.rs:86-89
entry_and_modify_or_insert(m, key, f, default) ==
    LET e == entry(m, key)
    IN or_insert(and_modify(m, e, f), e, default)

\* m.entry(key).or_insert(default)
entry_or_insert(m, key, default) == or_insert(m, entry(m, key), default)

\* TinyMap::insert
insert(m, key, val) ==
    LET r == binary_search_by_key(m, key)
    IN IF r.ok THEN [m EXCEPT ![r.idx + 1] = <<@[1], val>>]
       ELSE vec_insert(m, r.idx, <<key, val>>)

\* impl Extend for TinyMap: delegated to TinyVec::extend, which appends
extend(m, pairs) == m \o pairs

\* TinyMap::values, in storage order
values(m) == [j \in 1..Len(m) |-> m[j][2]]

\* TinyMap::len
len(m) == Len(m)

\* TinyMap::shrink_to_fit: releases capacity and keeps the contents
shrink_to_fit(m) == [j \in 1..Len(m) |-> m[j]]

----------------------------------------------------------------------------
(* Helpers of the properties *)

\* keys strictly increasing along the sequence (sorted, no duplicate key)
SortedNoDup(m) == \A j \in 1..(Len(m) - 1) : m[j][1] < m[j + 1][1]

HasKey(m, k) == \E j \in 1..Len(m) : m[j][1] = k

IsPrime(x) == x >= 2 /\ \A d \in 2..(x - 1) : x % d # 0

\* reference divisor count
NumDivisors(x) == Cardinality({d \in 1..x : x % d = 0})

\* reference count of the distinct primes dividing x
NumDistinctPrimes(x) == Cardinality({d \in 2..x : IsPrime(d) /\ x % d = 0})

RECURSIVE Power(_, _)
Power(b, e) == IF e = 0 THEN 1 ELSE b * Power(b, e - 1)

RECURSIVE FactorProduct(_)
FactorProduct(m) ==
    IF Len(m) = 0 THEN 1
    ELSE Power(m[1][1], m[1][2]) * FactorProduct(Tail(m))

----------------------------------------------------------------------------
(* The sieve of main (src/src/main.rs) *)

HistogramSize == 10

\* Option<NumProperties>
None == [some |-> FALSE, number |-> 0, num_factors |-> 0,
         num_prime_factors |-> 0, basedness |-> 0]

Some(number, num_factors, num_prime_factors, b) ==
    [some |-> TRUE, number |-> number, num_factors |-> num_factors,
     num_prime_factors |-> num_prime_factors, basedness |-> b]

\* n, the length of the two tables
n == max_num + 1

\* the scan with the bound p * p < i in place of p * p <= i
RECURSIVE find_prime_factor_strict(_, _, _)
find_prime_factor_strict(ps, x, j) ==
    IF j > Len(ps) THEN [tag |-> "None", p |-> 0]
    ELSE IF ps[j] * ps[j] >= x THEN [tag |-> "None", p |-> 0]
    ELSE IF ps[j] = 0 THEN [tag |-> "DivByZero", p |-> 0]
    ELSE IF x % ps[j] = 0 THEN [tag |-> "Some", p |-> ps[j]]
    ELSE find_prime_factor_strict(ps, x, j + 1)

\* primes.iter().take_while(|p| p * p <= i).find(|p| i % p == 0), scanning
\* from position j; a test `i % p` with p = 0 is a panic
RECURSIVE find_prime_factor(_, _, _)
find_prime_factor(ps, x, j) ==
    IF j > Len(ps) THEN [tag |-> "None", p |-> 0]
    ELSE IF ps[j] * ps[j] > x THEN [tag |-> "None", p |-> 0]
    ELSE IF ps[j] = 0 THEN [tag |-> "DivByZero", p |-> 0]
    ELSE IF x % ps[j] = 0 THEN [tag |-> "Some", p |-> ps[j]]
    ELSE find_prime_factor(ps, x, j + 1)

\* the product of the exponents themselves, without the + 1
RECURSIVE product_of_values(_)
product_of_values(vs) ==
    IF Len(vs) = 0 THEN 1
    ELSE vs[1] * product_of_values(Tail(vs))

\* .values().copied().map(|k| u64::from(k + 1)).product()
RECURSIVE product_of_values_plus_one(_)
product_of_values_plus_one(vs) ==
    IF Len(vs) = 0 THEN 1
    ELSE (vs[1] + 1) * product_of_values_plus_one(Tail(vs))

\* the factorization map of a composite x with prime factor p (main.rs:82-89)
composite_factors(pf, x, p) ==
    entry_and_modify_or_insert(pf[x \div p], p, "incr", 1)

\* the factorization map of a prime x (main.rs:95)
prime_factors_of_prime(pf, x) == insert(pf[x], x, 1)

\* the histogram slot without the - 1
histogram_index_no_offset(k) == k

\* the histogram slot of a number with k distinct prime factors (main.rs:105)
histogram_index(k) == k - 1

\* basedness from the wrong field of the record of x - 1
basedness_wrong_field(props, x, num_prime_factors) ==
    num_prime_factors * props[x - 1].num_prime_factors

\* basedness without the distinct prime factor count
basedness_factor_count_only(props, x, num_prime_factors) ==
    props[x - 1].num_factors

\* basedness of x from its distinct prime factor count (main.rs:107)
basedness(props, x, num_prime_factors) ==
    num_prime_factors * props[x - 1].num_factors

\* based.last().copied().map_or(0, |(_, basedness)| basedness)
last_basedness(b) == IF Len(b) = 0 THEN 0 ELSE b[Len(b)][2]

\* the push with >= in place of >
push_based_ge(b, x, bn) ==
    IF bn >= last_basedness(b) THEN Append(b, <<x, bn>>) ELSE b

\* the based list after the step of x (main.rs:116-118)
push_based(b, x, bn) ==
    IF bn > last_basedness(b) THEN Append(b, <<x, bn>>) ELSE b

\* .take_while(|n| *n > 0).enumerate().map(|(i, n)| (i + 1, n)), from slot j
RECURSIVE finalize_histogram(_, _)
finalize_histogram(h, j) ==
    IF j >= HistogramSize THEN <<>>
    ELSE IF h[j] > 0 THEN <<<<j + 1, h[j]>>>> \o finalize_histogram(h, j + 1)
    ELSE <<>>

\* the accesses of the rest of the loop body for x whose map is m: the
\* histogram slot is inside the array and the record of x - 1 is Some
body_is_safe(props, m, x) ==
    /\ histogram_index(len(m)) \in 0..(HistogramSize - 1)
    /\ (x - 1) \in DOMAIN props
    /\ props[x - 1].some

\* the rest of the loop body (main.rs:101-118) for x, its map m and its
\* factor count nf, or the panic of an access that fails
LoopBody(x, m, nf) ==
    IF body_is_safe(num_properties, m, x)
    THEN LET npf == len(m)
             bn == basedness(num_properties, x, npf)
         IN /\ prime_factors' = [prime_factors EXCEPT ![x] = shrink_to_fit(m)]
            /\ num_prime_factors_histogram' =
                   [num_prime_factors_histogram EXCEPT ![histogram_index(npf)] = @ + 1]
            /\ num_properties' = [num_properties EXCEPT ![x] = Some(x, nf, npf, bn)]
            /\ based' = push_based(based, x, bn)
            /\ i' = x + 1
            /\ pc' = IF x + 1 < n THEN "loop" ELSE "finalize"
    ELSE /\ pc' = "panic"
         /\ UNCHANGED <<i, num_properties, prime_factors, based,
                        num_prime_factors_histogram>>

\* the state after the set-up of main (main.rs:47-66) for max_num = m
SieveSetup(m) ==
    /\ max_num = m
    /\ i = 2
    /\ pc = IF 2 < m + 1 THEN "loop" ELSE "finalize"
    /\ num_properties = [x \in 0..m |-> IF x = 1 THEN Some(1, 1, 0, 0) ELSE None]
    /\ prime_factors = [x \in 0..m |-> new]
    /\ primes = <<>>
    /\ based = <<>>
    /\ num_prime_factors_histogram = [j \in 0..(HistogramSize - 1) |-> 0]
    /\ histogram_out = <<>>

\* one iteration of the loop in which a prime factor p of i is found
SieveComposite ==
    /\ pc = "loop"
    /\ LET r == find_prime_factor(primes, i, 1)
       IN /\ r.tag # "None"
          /\ IF r.tag = "Some" /\ (i \div r.p) \in DOMAIN prime_factors
             THEN LET m == composite_factors(prime_factors, i, r.p)
                  IN LoopBody(i, m, product_of_values_plus_one(values(m)))
             ELSE /\ pc' = "panic"
                  /\ UNCHANGED <<i, num_properties, prime_factors, based,
                                 num_prime_factors_histogram>>
    /\ UNCHANGED <<max_num, primes, histogram_out, inner, last>>

\* one iteration of the loop in which no prime factor is found: i is pushed
SievePrime ==
    /\ pc = "loop"
    /\ find_prime_factor(primes, i, 1).tag = "None"
    /\ LoopBody(i, prime_factors_of_prime(prime_factors, i), 2)
    /\ primes' = IF pc' = "panic" THEN primes ELSE Append(primes, i)
    /\ UNCHANGED <<max_num, histogram_out, inner, last>>

\* the histogram is trimmed for output (main.rs:121-127)
Finalize ==
    /\ pc = "finalize"
    /\ histogram_out' = finalize_histogram(num_prime_factors_histogram, 0)
    /\ pc' = "done"
    /\ UNCHANGED <<max_num, i, num_properties, prime_factors, primes, based,
                   num_prime_factors_histogram, inner, last>>

NoOp == [op |-> "new", key |-> 0, f |-> "none", val |-> 0]

Init ==
    /\ \E m \in 1..MaxNum : SieveSetup(m)
    /\ inner = new
    /\ last = NoOp

Next == SieveComposite \/ SievePrime \/ Finalize

Spec == Init /\ [][Next]_vars

----------------------------------------------------------------------------
(* The operations of a TinyMap, called in any order *)

ValuesIn(m) == \A j \in 1..Len(m) : m[j][2] \in Vals

\* m.entry(k) alone: the handle is dropped
MapEntry(k) ==
    /\ entry(inner, k).tag \in {"Occupied", "Vacant"}
    /\ inner' = inner
    /\ last' = [op |-> "entry", key |-> k, f |-> "none", val |-> 0]

MapEntryOrInsert(k, d) ==
    /\ Len(inner) < MaxLen
    /\ inner' = entry_or_insert(inner, k, d)
    /\ last' = [op |-> "entry_or_insert", key |-> k, f |-> "none", val |-> d]

MapEntryAndModifyOrInsert(k, f, d) ==
    /\ Len(inner) < MaxLen
    /\ ValuesIn(entry_and_modify_or_insert(inner, k, f, d))
    /\ inner' = entry_and_modify_or_insert(inner, k, f, d)
    /\ last' = [op |-> "entry_and_modify_or_insert", key |-> k, f |-> f, val |-> d]

MapInsert(k, v) ==
    /\ Len(inner) < MaxLen
    /\ inner' = insert(inner, k, v)
    /\ last' = [op |-> "insert", key |-> k, f |-> "none", val |-> v]

MapExtend(ps) ==
    /\ Len(inner) + Len(ps) <= MaxLen
    /\ inner' = extend(inner, ps)
    /\ last' = [op |-> "extend", key |-> 0, f |-> "none", val |-> 0]

MapInit ==
    /\ inner = new
    /\ last = NoOp
    /\ SieveSetup(1)

MapNext ==
    \/ \E k \in Keys : MapEntry(k) /\ UNCHANGED sieveVars
    \/ \E k \in Keys, d \in Vals : MapEntryOrInsert(k, d) /\ UNCHANGED sieveVars
    \/ \E k \in Keys, f \in Closures, d \in Vals :
           MapEntryAndModifyOrInsert(k, f, d) /\ UNCHANGED sieveVars
    \/ \E k \in Keys, v \in Vals : MapInsert(k, v) /\ UNCHANGED sieveVars
    \/ \E ps \in ExtendInputs : MapExtend(ps) /\ UNCHANGED sieveVars

MapSpec == MapInit /\ [][MapNext]_vars

----------------------------------------------------------------------------
(* Reference values of the properties *)

\* the primes p with 2 <= p <= k, ascending
RECURSIVE PrimesUpTo(_)
PrimesUpTo(k) ==
    IF k < 2 THEN <<>>
    ELSE IF IsPrime(k) THEN Append(PrimesUpTo(k - 1), k) ELSE PrimesUpTo(k - 1)

\* the number of x in 2..m with exactly k distinct prime factors
BucketCount(m, k) == Cardinality({x \in 2..m : NumDistinctPrimes(x) = k})

\* the largest k with a non-empty bucket, 0 when there is none
LargestBucket(m) ==
    LET ks == {k \in 1..m : BucketCount(m, k) > 0}
    IN IF ks = {} THEN 0 ELSE CHOOSE k \in ks : \A k2 \in ks : k2 <= k

ExpectedHistogram(m) == [k \in 1..LargestBucket(m) |-> <<k, BucketCount(m, k)>>]

RECURSIVE SumCounts(_)
SumCounts(h) == IF Len(h) = 0 THEN 0 ELSE h[1][2] + SumCounts(Tail(h))

Populated(x) == x \in DOMAIN num_properties /\ num_properties[x].some

SquareFree(m) == \A j \in 1..Len(m) : m[j][2] = 1

StrictlyIncreasingPairs(b) ==
    \A j \in 1..(Len(b) - 1) : b[j][1] < b[j + 1][1] /\ b[j][2] < b[j + 1][2]

----------------------------------------------------------------------------
(* The claims *)

\* C1: after any sequence of entry/insert/extend calls on a new map, the
\* underlying sequence is sorted by strictly increasing key, with no
\* duplicate key.  extend appends its pairs as given, so this is violated.
C1_SortedNoDup == SortedNoDup(inner)

\* C2: for every number x in 1..max whose record is stored, the stored factor
\* count equals the number of positive divisors of x, and once the loop has
\* ended every x in 1..max has its record.
C2_FactorCount ==
    /\ \A x \in 1..max_num :
           Populated(x) => num_properties[x].num_factors = NumDivisors(x)
    /\ pc \in {"finalize", "done"} => \A x \in 1..max_num : Populated(x)

C2_Witness ==
    /\ pc = "done"
    /\ max_num >= 24
    /\ num_properties[24].num_factors = 8
    /\ num_properties[23].num_factors = 2
    /\ num_properties[1].num_factors = 1

\* C3: for every x in 2..max that the loop has processed, every key of
\* prime_factors[x] is prime, every exponent is at least 1 and the product
\* of key^exponent over the map is x.
C3_FactorizationReconstructs ==
    \A x \in 2..max_num :
        Populated(x) =>
            LET m == prime_factors[x]
            IN /\ \A j \in 1..Len(m) : IsPrime(m[j][1]) /\ m[j][2] >= 1
               /\ FactorProduct(m) = x

C3_Witness ==
    /\ max_num >= 24
    /\ Populated(24)
    /\ prime_factors[24] = <<<<2, 3>>, <<3, 1>>>>

\* C4: while the loop runs the primes list is exactly the ascending list of
\* the primes below i (the step of i pushes i iff i is prime), so after the
\* loop it is exactly the ascending list of the primes in 2..max.
C4_PrimesList ==
    /\ pc # "panic" => primes = PrimesUpTo(i - 1)
    /\ pc \in {"finalize", "done"} => primes = PrimesUpTo(max_num)

C4_Witness ==
    /\ pc = "done"
    /\ max_num = 30
    /\ primes = <<2, 3, 5, 7, 11, 13, 17, 19, 23, 29>>

\* C5: for every processed x in 2..max the stored basedness is the number of
\* entries of prime_factors[x], which is the number of distinct primes of x,
\* times the factor count stored for x - 1; the record of 1 is (1, 1, 0, 0).
C5_Basedness ==
    /\ num_properties[1] = Some(1, 1, 0, 0)
    /\ \A x \in 2..max_num :
           Populated(x) =>
               /\ num_properties[x].num_prime_factors = Len(prime_factors[x])
               /\ Len(prime_factors[x]) = NumDistinctPrimes(x)
               /\ num_properties[x].basedness =
                      Len(prime_factors[x]) * num_properties[x - 1].num_factors

C5_Witness ==
    /\ max_num >= 30
    /\ Populated(30)
    /\ num_properties[30].basedness = 6
    /\ num_properties[29].num_factors = 2
    /\ num_properties[30].num_factors = 8

\* C6: every step leaves the based list strictly increasing in number and in
\* basedness; the step of i appends (i, basedness(i)) when basedness(i)
\* exceeds the last recorded basedness (0 for the empty list) and leaves the
\* list alone otherwise; no other step changes the list.
C6_BasedStep ==
    /\ StrictlyIncreasingPairs(based')
    /\ IF i' # i
       THEN LET b == num_properties'[i].basedness
            IN IF b > last_basedness(based)
               THEN based' = Append(based, <<i, b>>)
               ELSE based' = based
       ELSE based' = based

C6_BasedAppendOnly == [][C6_BasedStep]_vars

C6_Witness ==
    /\ based = <<<<2, 1>>, <<3, 2>>, <<5, 3>>, <<6, 4>>, <<10, 6>>>>
    /\ i = 15

\* C7: after the run the finalized histogram is the list of (k, c_k) for
\* k = 1..K, c_k the number of x in 2..max with exactly k distinct prime
\* factors and K the largest k with c_k > 0 (empty for max = 1); no
\* non-zero bucket of the array is left out, and the counts sum to max - 1.
C7_Histogram ==
    pc = "done" =>
        /\ histogram_out = ExpectedHistogram(max_num)
        /\ \A j \in 0..(HistogramSize - 1) :
               num_prime_factors_histogram[j] > 0 =>
                   /\ j + 1 <= Len(histogram_out)
                   /\ histogram_out[j + 1] = <<j + 1, num_prime_factors_histogram[j]>>
        /\ SumCounts(histogram_out) = max_num - 1

C7_Witness ==
    /\ pc = "done"
    /\ max_num = 30
    /\ histogram_out = <<<<1, 16>>, <<2, 12>>, <<3, 1>>>>

\* C8: on a sorted map without duplicate keys, entry(k).and_modify(f)
\* .or_insert(d) turns the value v of a present k into f(v) and keeps the
\* length; for an absent k it inserts (k, d) at the sorted position, which
\* is the index entry computed, shifting the later entries right; all other
\* entries keep key and value; entry(k) alone leaves the sequence unchanged.
C8_EntryStep ==
    /\ last'.op = "entry" => inner' = inner
    /\ (last'.op = "entry_and_modify_or_insert" /\ SortedNoDup(inner)) =>
           LET k == last'.key
               pos == Cardinality({j \in 1..Len(inner) : inner[j][1] < k})
           IN IF HasKey(inner, k)
              THEN /\ Len(inner') = Len(inner)
                   /\ entry(inner, k).tag = "Occupied"
                   /\ \A j \in 1..Len(inner) :
                          IF inner[j][1] = k
                          THEN inner'[j] = <<k, apply_f(last'.f, inner[j][2])>>
                          ELSE inner'[j] = inner[j]
              ELSE /\ Len(inner') = Len(inner) + 1
                   /\ entry(inner, k) = [tag |-> "Vacant", key |-> k, idx |-> pos]
                   /\ inner'[pos + 1] = <<k, last'.val>>
                   /\ \A j \in 1..Len(inner) :
                          inner'[IF j <= pos THEN j ELSE j + 1] = inner[j]

C8_EntryAndModifyOrInsert == [][C8_EntryStep]_vars

C8_Witness ==
    /\ last = [op |-> "entry_and_modify_or_insert", key |-> 2, f |-> "incr", val |-> 0]
    /\ inner = <<<<1, 1>>, <<2, 0>>, <<3, 1>>>>

\* C9: no step of the run fails: the step about to run for i divides only by
\* primes p >= 2, clones a slot i/p with 2 <= p <= i/p < i that holds a
\* non-empty factorization, reads a populated record of i - 1, and the
\* histogram index of every processed number is inside 0..9.  For
\* max <= MaxNum no number has more than three distinct primes, so the upper
\* end of the histogram (first passed by 200560490130, the product of the
\* first eleven primes) is out of reach of the model.
C9_NoStepFails ==
    /\ pc # "panic"
    /\ \A j \in 1..Len(primes) : primes[j] >= 2
    /\ Populated(i - 1)
    /\ \A x \in 2..(i - 1) :
           /\ Len(prime_factors[x]) >= 1
           /\ histogram_index(num_properties[x].num_prime_factors)
                  \in 0..(HistogramSize - 1)
    /\ pc = "loop" =>
           LET r == find_prime_factor(primes, i, 1)
           IN r.tag = "Some" =>
                  /\ 2 <= r.p /\ r.p <= i \div r.p /\ i \div r.p < i
                  /\ Populated(i \div r.p)

====
